---- MODULE Spec2Model ----
(***************************************************************************)
(* A model of the prometheus-http-query client: the operations of Client   *)
(* (src/src/client.rs), the Query trait with InstantQuery and RangeQuery   *)
(* (src/src/query.rs) and the typed envelope QueryResult                   *)
(* (src/src/result.rs).                                                    *)
(*                                                                         *)
(* Spec has one invocation in flight at a time.  An operation runs up to   *)
(* its single await on the transport (pc = "await") and is resumed by      *)
(* Receive with the transport's answer; Return discards the invocation.    *)
(* SpecConcurrent has several invocations in flight on one handle,         *)
(* SpecConstruct the constructors of Client, and SpecDecode the decoding   *)
(* of a JSON value into a QueryResult.                                     *)
(*                                                                         *)
(* Text that the code takes apart (durations, numbers rendered by          *)
(* to_string) is a sequence of one-character strings; text that is only    *)
(* compared or copied (status, errorType, resultType, ...) is a string.    *)
(***************************************************************************)
EXTENDS Integers, Sequences, FiniteSets, TLC

VARIABLES base_url, pc, op, args, request, sent, response, outcome, trace

vars == <<base_url, pc, op, args, request, sent, response, outcome, trace>>

(***************************************************************************)
(* Bounds of the model.                                                    *)
(***************************************************************************)
MaxTime == 1

MaxSelectors == 2

\* the number of invocations that may be in flight on one handle
MaxInFlight == 2

None == [t |-> "none"]

Some(x) == [t |-> "some", x |-> x]

(***************************************************************************)
(* JSON values (serde_json::Value).                                        *)
(***************************************************************************)
Absent == [t |-> "absent"]

JNull == [t |-> "null"]

JStr(s) == [t |-> "str", s |-> s]

JNum(n) == [t |-> "num", n |-> n]

JArr(a) == [t |-> "arr", a |-> a]

JObj(o) == [t |-> "obj", o |-> o]

\* a body that is not JSON at all
Garbage == [t |-> "garbage"]

\* the object with the keys of f whose value is not Absent
MkObj(f) == [k \in {j \in DOMAIN f : f[j] # Absent} |-> f[k]]

\* HashMap::get / serde_json::Map::get: the value of a key, or nothing
Get(map, k) == IF k \in DOMAIN map THEN map[k] ELSE Absent

(***************************************************************************)
(* Results of a computation: Ok(value), Err(error) or a panic (an unwrap   *)
(* of None), each with the steps the computation went through.             *)
(***************************************************************************)
Ok(v, tr) == [r |-> "Ok", v |-> v, tr |-> tr]

Err(e, tr) == [r |-> "Err", e |-> e, tr |-> tr]

Panic(tr) == [r |-> "Panic", tr |-> tr]

\* Result::and_then and the ? operator: the second stage runs only after an Ok
\* of the first, and the steps of both are kept in order
Then(a, b) == IF a.r = "Ok" THEN [b EXCEPT !.tr = a.tr \o b.tr] ELSE a

(***************************************************************************)
(* The variants of crate::error::Error that the operations construct.      *)
(***************************************************************************)
Reqwest(cause) == [kind |-> "Reqwest", cause |-> cause]

MissingField == [kind |-> "MissingField"]

ResponseError(kind, message) ==
    [kind |-> "ResponseError", error_kind |-> kind, message |-> message]

UnknownResponseStatus(status) == [kind |-> "UnknownResponseStatus", status |-> status]

UnsupportedQueryResultType(tag) == [kind |-> "UnsupportedQueryResultType", tag |-> tag]

ResponseParse == [kind |-> "ResponseParse"]

InvalidFunctionArgument == [kind |-> "InvalidFunctionArgument"]

UrlParse == [kind |-> "UrlParse"]

\* the error of crate::util::validate_duration
InvalidDuration == [kind |-> "InvalidDuration"]

(***************************************************************************)
(* Text.                                                                   *)
(***************************************************************************)
Digit == <<"0", "1", "2", "3", "4", "5", "6", "7", "8", "9">>

RECURSIVE Decimal(_)

\* the decimal digits of n >= 0
Decimal(n) ==
    IF n < 10 THEN <<Digit[n + 1]>> ELSE Decimal(n \div 10) \o <<Digit[(n % 10) + 1]>>

\* i64::to_string
to_string(n) == IF n < 0 THEN <<"-">> \o Decimal(0 - n) ELSE Decimal(n)

IsDigit(c) == \E i \in 1..10 : Digit[i] = c

RECURSIVE DigitPrefixLen(_)

\* the number of leading digits of s
DigitPrefixLen(s) ==
    IF s = <<>> \/ ~IsDigit(Head(s)) THEN 0 ELSE 1 + DigitPrefixLen(Tail(s))

DurationUnits == {<<"m", "s">>, <<"s">>, <<"m">>, <<"h">>, <<"d">>, <<"w">>, <<"y">>}

\* the grammar ^[0-9]+(ms|s|m|h|d|w|y)$ with a value that is not zero
DurationOk(s) ==
    LET n == DigitPrefixLen(s)
        digits == SubSeq(s, 1, n)
        unit == SubSeq(s, n + 1, Len(s))
    IN  /\ n > 0
        /\ unit \in DurationUnits
        /\ \E i \in 1..n : digits[i] # "0"

\* crate::util::validate_duration
validate_duration(s) ==
    IF DurationOk(s)
    THEN Ok(s, <<"validate_duration">>)
    ELSE Err(InvalidDuration, <<"validate_duration">>)

(***************************************************************************)
(* Selectors (crate::selector) rendered to matcher text.                   *)
(***************************************************************************)
MatchOp(o) ==
    CASE o = "Equal" -> <<"=">>
      [] o = "NotEqual" -> <<"!", "=">>
      [] o = "RegexMatch" -> <<"=", "~">>
      [] o = "RegexNoMatch" -> <<"!", "~">>

\* a label value between quotes, with quotes and backslashes escaped
RECURSIVE Escape(_)

Escape(v) ==
    IF v = <<>> THEN <<>>
    ELSE (IF Head(v) \in {"\"", "\\"} THEN <<"\\", Head(v)>> ELSE <<Head(v)>>)
         \o Escape(Tail(v))

RenderMatcher(m) == m.label \o MatchOp(m.op) \o <<"\"">> \o Escape(m.value) \o <<"\"">>

RECURSIVE RenderMatchers(_)

RenderMatchers(ms) ==
    IF ms = <<>> THEN <<>>
    ELSE IF Len(ms) = 1 THEN RenderMatcher(ms[1])
    ELSE RenderMatcher(ms[1]) \o <<",">> \o RenderMatchers(Tail(ms))

\* Selector's Display: the metric name, then the matchers between braces
SelectorToString(sel) == sel.metric \o <<"{">> \o RenderMatchers(sel.matchers) \o <<"}">>

RECURSIVE Find(_, _)

\* the index of the first c in s, 0 when there is none
Find(s, c) ==
    IF s = <<>> THEN 0
    ELSE IF Head(s) = c THEN 1
    ELSE LET i == Find(Tail(s), c) IN IF i = 0 THEN 0 ELSE i + 1

\* str::split_once(c): the text before and after the first c
split_once(s, c) ==
    LET i == Find(s, c)
    IN  IF i = 0 THEN None
        ELSE Some(<<SubSeq(s, 1, i - 1), SubSeq(s, i + 1, Len(s))>>)

\* the closure that turns a selector into a match[] value: the rendered text up
\* to and including its first closing brace
MatchParam(sel) ==
    LET text == SelectorToString(sel)
        split == split_once(text, "}")
    IN  IF split = None THEN text ELSE split.x[1] \o <<"}">>

RECURSIVE MatchParams(_)

\* one ("match[]", value) pair per selector, in order
MatchParams(sels) ==
    IF sels = <<>> THEN <<>>
    ELSE <<(<<"match[]", MatchParam(Head(sels))>>)>> \o MatchParams(Tail(sels))

(***************************************************************************)
(* serde_json::from_value into the types the operations ask for.           *)
(***************************************************************************)
\* HashMap<String, String>
IsStringMap(v) == v.t = "obj" /\ \A k \in DOMAIN v.o : v.o[k].t = "str"

ToStringMap(v) == [k \in DOMAIN v.o |-> v.o[k].s]

\* Vec<String>
IsStringVec(v) == v.t = "arr" /\ \A i \in 1..Len(v.a) : v.a[i].t = "str"

\* Sample: [<float-seconds>, "<string-number>"]
IsSample(v) == v.t = "arr" /\ Len(v.a) = 2 /\ v.a[1].t = "num" /\ v.a[2].t = "str"

ToSample(v) == [timestamp |-> v.a[1].n, value |-> v.a[2].s]

\* InstantVector: {"metric": {...}, "value": [..]}
IsInstantVector(v) ==
    /\ v.t = "obj"
    /\ {"metric", "value"} \subseteq DOMAIN v.o
    /\ IsStringMap(v.o["metric"])
    /\ IsSample(v.o["value"])

ToInstantVector(v) ==
    [metric |-> ToStringMap(v.o["metric"]), sample |-> ToSample(v.o["value"])]

\* RangeVector: {"metric": {...}, "values": [[..], ...]}
IsRangeVector(v) ==
    /\ v.t = "obj"
    /\ {"metric", "values"} \subseteq DOMAIN v.o
    /\ IsStringMap(v.o["metric"])
    /\ v.o["values"].t = "arr"
    /\ \A i \in 1..Len(v.o["values"].a) : IsSample(v.o["values"].a[i])

ToRangeVector(v) ==
    [metric |-> ToStringMap(v.o["metric"]),
     samples |-> [i \in 1..Len(v.o["values"].a) |-> ToSample(v.o["values"].a[i])]]

\* serde_json::from_value::<Vec<InstantVector>>(data).map_err(Error::ResponseParse)
from_value_instant_vectors(data) ==
    IF data.t = "arr" /\ \A i \in 1..Len(data.a) : IsInstantVector(data.a[i])
    THEN Ok([i \in 1..Len(data.a) |-> ToInstantVector(data.a[i])], <<"from_value">>)
    ELSE Err(ResponseParse, <<"from_value">>)

\* serde_json::from_value::<Vec<RangeVector>>(data).map_err(Error::ResponseParse)
from_value_range_vectors(data) ==
    IF data.t = "arr" /\ \A i \in 1..Len(data.a) : IsRangeVector(data.a[i])
    THEN Ok([i \in 1..Len(data.a) |-> ToRangeVector(data.a[i])], <<"from_value">>)
    ELSE Err(ResponseParse, <<"from_value">>)

\* serde_json::from_value::<Sample>(data).map_err(Error::ResponseParse)
from_value_sample(data) ==
    IF IsSample(data)
    THEN Ok(ToSample(data), <<"from_value">>)
    ELSE Err(ResponseParse, <<"from_value">>)

\* a value of the enum QueryResultType
QueryResultType(variant, res) ==
    IF res.r = "Ok" THEN [res EXCEPT !.v = [variant |-> variant, result |-> res.v]] ELSE res

\* check_response that looks for data before it looks at the status
check_response_data_first(body) ==
    LET tr == <<"check_response">>
    IN  IF body.t # "obj" THEN Err(Reqwest("decode"), tr)
        ELSE
        LET map == body.o
            status == Get(map, "status")
            kind == Get(map, "errorType")
            message == Get(map, "error")
        IN  IF status = Absent THEN Err(MissingField, tr)
            ELSE IF status.t # "str" THEN Panic(tr)
            ELSE IF status.s = "success" \/ Get(map, "data") # Absent THEN Ok(map, tr)
            ELSE IF status.s = "error" THEN
                IF kind = Absent THEN Err(MissingField, tr)
                ELSE IF kind.t # "str" THEN Panic(tr)
                ELSE IF message = Absent THEN Err(MissingField, tr)
                ELSE IF message.t # "str" THEN Panic(tr)
                ELSE Err(ResponseError(kind.s, message.s), tr)
            ELSE Err(UnknownResponseStatus(status.s), tr)

\* check_response that compares the status without regard to case
check_response_caseless(body) ==
    LET tr == <<"check_response">>
    IN  IF body.t # "obj" THEN Err(Reqwest("decode"), tr)
        ELSE
        LET map == body.o
            status == Get(map, "status")
            kind == Get(map, "errorType")
            message == Get(map, "error")
        IN  IF status = Absent THEN Err(MissingField, tr)
            ELSE IF status.t # "str" THEN Panic(tr)
            ELSE IF status.s \in {"success", "Success"} THEN Ok(map, tr)
            ELSE IF status.s \in {"error", "Error"} THEN
                IF kind = Absent THEN Err(MissingField, tr)
                ELSE IF kind.t # "str" THEN Panic(tr)
                ELSE IF message = Absent THEN Err(MissingField, tr)
                ELSE IF message.t # "str" THEN Panic(tr)
                ELSE Err(ResponseError(kind.s, message.s), tr)
            ELSE Err(UnknownResponseStatus(status.s), tr)

\* check_response with the two texts of the error in each other's place
check_response_swapped(body) ==
    LET tr == <<"check_response">>
    IN  IF body.t # "obj" THEN Err(Reqwest("decode"), tr)
        ELSE
        LET map == body.o
            status == Get(map, "status")
            kind == Get(map, "errorType")
            message == Get(map, "error")
        IN  IF status = Absent THEN Err(MissingField, tr)
            ELSE IF status.t # "str" THEN Panic(tr)
            ELSE IF status.s = "success" THEN Ok(map, tr)
            ELSE IF status.s = "error" THEN
                IF kind = Absent THEN Err(MissingField, tr)
                ELSE IF kind.t # "str" THEN Panic(tr)
                ELSE IF message = Absent THEN Err(MissingField, tr)
                ELSE IF message.t # "str" THEN Panic(tr)
                ELSE Err(ResponseError(message.s, kind.s), tr)
            ELSE Err(UnknownResponseStatus(status.s), tr)

\* check_response that takes an envelope with warnings for a failed query
check_response_warned(body) ==
    LET tr == <<"check_response">>
    IN  IF body.t # "obj" THEN Err(Reqwest("decode"), tr)
        ELSE
        LET map == body.o
            status == Get(map, "status")
            kind == Get(map, "errorType")
            message == Get(map, "error")
        IN  IF status = Absent THEN Err(MissingField, tr)
            ELSE IF status.t # "str" THEN Panic(tr)
            ELSE IF status.s = "success" /\ Get(map, "warnings") # Absent
                 THEN Err(ResponseError("warnings", "w"), tr)
            ELSE IF status.s = "success" THEN Ok(map, tr)
            ELSE IF status.s = "error" THEN
                IF kind = Absent THEN Err(MissingField, tr)
                ELSE IF kind.t # "str" THEN Panic(tr)
                ELSE IF message = Absent THEN Err(MissingField, tr)
                ELSE IF message.t # "str" THEN Panic(tr)
                ELSE Err(ResponseError(kind.s, message.s), tr)
            ELSE Err(UnknownResponseStatus(status.s), tr)

(***************************************************************************)
(* check_response: the envelope's status decides between the map, a        *)
(* ResponseError and an UnknownResponseStatus.  `body` is the body of the  *)
(* response; json::<HashMap<String, Value>>() fails unless it is a JSON    *)
(* object.  as_str().unwrap() panics on a value that is not a string.      *)
(***************************************************************************)
check_response(body) ==
    LET tr == <<"check_response">>
    IN  IF body.t # "obj" THEN Err(Reqwest("decode"), tr)
        ELSE
        LET map == body.o
            status == Get(map, "status")
            kind == Get(map, "errorType")
            message == Get(map, "error")
        IN  IF status = Absent THEN Err(MissingField, tr)
            ELSE IF status.t # "str" THEN Panic(tr)
            ELSE IF status.s = "success" THEN Ok(map, tr)
            ELSE IF status.s = "error" THEN
                IF kind = Absent THEN Err(MissingField, tr)
                ELSE IF kind.t # "str" THEN Panic(tr)
                ELSE IF message = Absent THEN Err(MissingField, tr)
                ELSE IF message.t # "str" THEN Panic(tr)
                ELSE Err(ResponseError(kind.s, message.s), tr)
            ELSE Err(UnknownResponseStatus(status.s), tr)

\* match_data_type that looks at the payload when it does not fit the tag
match_data_type_guessing(data_type, data) ==
    CASE data_type \in {"vector", "matrix", "scalar"} /\ IsSample(data) ->
            QueryResultType("Scalar", from_value_sample(data))
      [] data_type = "vector" /\ ~IsSample(data) ->
            QueryResultType("Vector", from_value_instant_vectors(data))
      [] data_type = "matrix" /\ ~IsSample(data) ->
            QueryResultType("Matrix", from_value_range_vectors(data))
      [] data_type = "scalar" /\ ~IsSample(data) ->
            QueryResultType("Scalar", from_value_sample(data))
      [] OTHER -> Err(UnsupportedQueryResultType(data_type), <<>>)

\* match_data_type that decodes the payload of an unknown tag as a vector
match_data_type_lenient(data_type, data) ==
    CASE data_type = "matrix" -> QueryResultType("Matrix", from_value_range_vectors(data))
      [] data_type = "scalar" -> QueryResultType("Scalar", from_value_sample(data))
      [] OTHER -> QueryResultType("Vector", from_value_instant_vectors(data))

(***************************************************************************)
(* convert_query_response: the match on the resultType tag ...             *)
(***************************************************************************)
match_data_type(data_type, data) ==
    CASE data_type = "vector" -> QueryResultType("Vector", from_value_instant_vectors(data))
      [] data_type = "matrix" -> QueryResultType("Matrix", from_value_range_vectors(data))
      [] data_type = "scalar" -> QueryResultType("Scalar", from_value_sample(data))
      [] OTHER -> Err(UnsupportedQueryResultType(data_type), <<>>)

(***************************************************************************)
(* ... and the whole function: data, resultType and result are looked up   *)
(* in this order before the tag is matched.                                *)
(***************************************************************************)
convert_query_response(map) ==
    LET tr == <<"convert_query_response">>
        data == Get(map, "data")
    IN  IF data = Absent THEN Err(MissingField, tr)
        ELSE IF data.t # "obj" THEN Panic(tr)
        ELSE
        LET data_type == Get(data.o, "resultType")
            result == Get(data.o, "result")
        IN  IF data_type = Absent THEN Err(MissingField, tr)
            ELSE IF data_type.t # "str" THEN Panic(tr)
            ELSE IF result = Absent THEN Err(MissingField, tr)
            ELSE Then(Ok(result, tr \o <<"match_data_type">>),
                      match_data_type(data_type.s, result))

(***************************************************************************)
(* The transport's answer to a request: the connection fails, or a         *)
(* response with a status code and a body arrives.                         *)
(***************************************************************************)
ConnectionError == [t |-> "conn_err"]

HttpResponse(code, body) == [t |-> "http", code |-> code, body |-> body]

\* .send().await.map_err(Error::Reqwest)?
send(resp) ==
    IF resp.t = "conn_err" THEN Err(Reqwest("connect"), <<>>) ELSE Ok(resp, <<>>)

\* reqwest's Response::error_for_status: an error for a 4xx or 5xx status
error_for_status(resp) ==
    IF resp.code >= 400 /\ resp.code <= 599
    THEN Err(Reqwest("status"), <<>>)
    ELSE Ok(resp.body, <<>>)

\* .send().await.map_err(Error::Reqwest)?.error_for_status().map_err(Error::Reqwest)?
\* and check_response(response).await
checked(resp) ==
    IF send(resp).r # "Ok" THEN send(resp)
    ELSE IF error_for_status(resp).r # "Ok" THEN error_for_status(resp)
    ELSE check_response(resp.body)

(***************************************************************************)
(* What each operation does with the checked map.                          *)
(***************************************************************************)
\* whether serde_json::from_value::<ty> accepts the value v
Deserializes(ty, v) ==
    CASE ty = "Vec<HashMap<String, String>>" ->
            v.t = "arr" /\ \A i \in 1..Len(v.a) : IsStringMap(v.a[i])
      [] ty = "Vec<String>" -> IsStringVec(v)
      [] ty = "HashMap<String, String>" -> IsStringMap(v)
      [] ty = "Targets" -> v.t = "obj"
      [] ty \in {"Vec<RuleGroup>", "Vec<Alert>", "Vec<TargetMetadata>"} ->
            v.t = "arr" /\ \A i \in 1..Len(v.a) : v.a[i].t = "obj"
      [] ty = "HashMap<String, Vec<MetricMetadata>>" ->
            v.t = "obj" /\ \A k \in DOMAIN v.o : v.o[k].t = "arr"

\* serde_json::from_value(value).map_err(Error::ResponseParse)
from_value(ty, v) ==
    IF Deserializes(ty, v)
    THEN Ok([type |-> ty, value |-> v], <<"from_value">>)
    ELSE Err(ResponseParse, <<"from_value">>)

\* the closure of series, label_names, label_values, targets, flags,
\* target_metadata and metric_metadata: the data field, decoded as ty
data_closure(ty, r) ==
    IF Get(r, "data") = Absent
    THEN Err(MissingField, <<"closure">>)
    ELSE Then(Ok(r, <<"closure">>), from_value(ty, Get(r, "data")))

\* the closure of rules and alerts with an empty list in place of an absent field
field_closure_defaulting(ty, key, r) ==
    LET data == Get(r, "data")
    IN  IF data = Absent THEN Err(MissingField, <<"closure">>)
        ELSE IF data.t # "obj" THEN Panic(<<"closure">>)
        ELSE IF Get(data.o, key) = Absent
             THEN Then(Ok(r, <<"closure">>), from_value(ty, JArr(<<>>)))
        ELSE Then(Ok(r, <<"closure">>), from_value(ty, Get(data.o, key)))

\* the closure of rules and alerts: the field `key` of the data object
field_closure(ty, key, r) ==
    LET data == Get(r, "data")
    IN  IF data = Absent THEN Err(MissingField, <<"closure">>)
        ELSE IF data.t # "obj" THEN Panic(<<"closure">>)
        ELSE IF Get(data.o, key) = Absent THEN Err(MissingField, <<"closure">>)
        ELSE Then(Ok(r, <<"closure">>), from_value(ty, Get(data.o, key)))

\* url::Url::parse on the texts the model's bodies hold
UrlParses(raw) == raw \in {"http://am:9093", "http://am2:9093"}

RECURSIVE alertmanager_urls(_)

\* one loop of the closure of alertmanagers over the items of a list
alertmanager_urls(items) ==
    IF items = <<>> THEN Ok(<<>>, <<>>)
    ELSE
    LET item == Head(items)
        raw_url == IF item.t = "obj" THEN Get(item.o, "url") ELSE Absent
    IN  IF raw_url = Absent THEN Err(MissingField, <<>>)
        ELSE IF raw_url.t # "str" THEN Panic(<<>>)
        ELSE IF ~UrlParses(raw_url.s) THEN Err(UrlParse, <<>>)
        ELSE LET rest == alertmanager_urls(Tail(items))
             IN  IF rest.r = "Ok" THEN Ok(<<raw_url.s>> \o rest.v, <<>>) ELSE rest

\* the closure of alertmanagers
alertmanagers_closure(r) ==
    LET tr == <<"closure">>
        data == Get(r, "data")
    IN  IF data = Absent THEN Err(MissingField, tr)
        ELSE IF data.t # "obj" THEN Panic(tr)
        ELSE
        LET act == Get(data.o, "activeAlertmanagers")
            drp == Get(data.o, "droppedAlertmanagers")
        IN  IF act = Absent THEN Err(MissingField, tr)
            ELSE IF act.t # "arr" THEN Panic(tr)
            ELSE IF alertmanager_urls(act.a).r # "Ok" THEN Then(Ok(r, tr), alertmanager_urls(act.a))
            ELSE IF drp = Absent THEN Err(MissingField, tr)
            ELSE IF drp.t # "arr" THEN Panic(tr)
            ELSE IF alertmanager_urls(drp.a).r # "Ok" THEN Then(Ok(r, tr), alertmanager_urls(drp.a))
            ELSE Ok([active |-> alertmanager_urls(act.a).v,
                     dropped |-> alertmanager_urls(drp.a).v], tr)

(***************************************************************************)
(* The inputs of the model.                                                *)
(***************************************************************************)
Opt(S) == {None} \cup {Some(x) : x \in S}

\* the text of a query expression
Vectors == {<<"u", "p">>}

Times == 0..MaxTime

\* the first and the last of them, for the start and end of a discovery
DiscoveryTimes == {0, MaxTime}

\* "5m", "30s", "", "5", "0m", "5mx"
Durations ==
    {<<"5", "m">>, <<"3", "0", "s">>, <<>>, <<"5">>, <<"0", "m">>, <<"5", "m", "x">>}

\* {a="b"} and up{a=~"}"}
SelectorPool ==
    {[metric |-> <<>>,
      matchers |-> <<[label |-> <<"a">>, op |-> "Equal", value |-> <<"b">>]>>],
     [metric |-> <<"u", "p">>,
      matchers |-> <<[label |-> <<"a">>, op |-> "RegexMatch", value |-> <<"}">>]>>]}

SelectorLists == UNION {[1..n -> SelectorPool] : n \in 0..MaxSelectors}

Labels == {<<"j", "o", "b">>}

\* TargetState's Display: active, dropped, any
TargetStates ==
    {<<"a", "c", "t", "i", "v", "e">>, <<"d", "r", "o", "p", "p", "e", "d">>, <<"a", "n", "y">>}

\* RuleType's Display: alert, record
RuleTypes == {<<"a", "l", "e", "r", "t">>, <<"r", "e", "c", "o", "r", "d">>}

Limits == {1}

(***************************************************************************)
(* The bodies a server may answer with.                                    *)
(***************************************************************************)
VectorResult ==
    JArr(<<JObj([metric |-> JObj([job |-> JStr("x")]),
                 value |-> JArr(<<JNum(1617960600), JStr("1")>>)])>>)

MatrixResult ==
    JArr(<<JObj([metric |-> JObj([job |-> JStr("x")]),
                 values |-> JArr(<<JArr(<<JNum(1617960600), JStr("1")>>)>>)])>>)

ScalarResult == JArr(<<JNum(1617960600), JStr("1")>>)

TagValues ==
    {Absent, JStr("vector"), JStr("matrix"), JStr("scalar"), JStr("string"),
     JStr("histogram"), JNum(1)}

ResultValues ==
    {Absent, VectorResult, MatrixResult, ScalarResult, JArr(<<>>), JObj(<<>>)}

\* the data of the two query endpoints
QueryData ==
    {JObj(MkObj([resultType |-> rt, result |-> rs])) : rt \in TagValues, rs \in ResultValues}

\* the data of the other endpoints, well formed and not
OtherData ==
    {JArr(<<JStr("job")>>),
     JArr(<<JObj([job |-> JStr("x")])>>),
     JObj([groups |-> JArr(<<>>)]),
     JObj([alerts |-> JArr(<<JObj(<<>>)>>)]),
     JObj([activeAlertmanagers |-> JArr(<<JObj([url |-> JStr("http://am:9093")])>>),
           droppedAlertmanagers |-> JArr(<<>>)]),
     JObj([activeAlertmanagers |-> JArr(<<JObj([url |-> JStr("not a url")])>>),
           droppedAlertmanagers |-> JArr(<<>>)]),
     JObj([activeAlertmanagers |-> JArr(<<>>)]),
     JObj([activeAlertmanagers |-> JArr(<<JObj([url |-> JNum(1)])>>),
           droppedAlertmanagers |-> JArr(<<>>)]),
     JObj([activeAlertmanagers |-> JNum(1), droppedAlertmanagers |-> JArr(<<>>)]),
     JObj([groups |-> JNum(1)]),
     JObj([alerts |-> JStr("x")]),
     JNum(1),
     JNull}

StatusValues ==
    {Absent, JStr("success"), JStr("error"), JStr("Success"), JStr("Error"), JStr("failure")}

VectorData == JObj([resultType |-> JStr("vector"), result |-> VectorResult])

\* every combination of presence of the five envelope fields
EnvelopeBodies ==
    {JObj(MkObj([status |-> st, errorType |-> et, error |-> er, data |-> d, warnings |-> w])) :
        st \in StatusValues,
        et \in {Absent, JStr("bad_data")},
        er \in {Absent, JStr("invalid query")},
        d \in {Absent, VectorData},
        w \in {Absent, JArr(<<JStr("w")>>)}}

\* a success envelope around every data value
SuccessBodies ==
    {JObj([status |-> JStr("success"), data |-> d]) : d \in QueryData \cup OtherData}

\* envelopes with a field of an unexpected JSON type, and bodies that are no envelope
MistypedBodies ==
    {JObj([status |-> JNum(1), data |-> VectorData]),
     JObj([status |-> JNull]),
     JObj([status |-> JStr("error"), errorType |-> JNum(1), error |-> JStr("invalid query")]),
     JObj([status |-> JStr("error"), errorType |-> JStr("bad_data"), error |-> JNull]),
     JObj([status |-> JStr("error"), errorType |-> JStr("timeout"), error |-> JStr("query timed out")]),
     JArr(<<>>),
     Garbage}

Bodies == EnvelopeBodies \cup SuccessBodies \cup MistypedBodies

\* the bodies that come with a status that is not 200
ErrorPageBodies ==
    {Garbage,
     JObj([status |-> JStr("error"), errorType |-> JStr("bad_data"), error |-> JStr("invalid query")]),
     JObj([status |-> JStr("success"), data |-> VectorData])}

Responses ==
    {ConnectionError}
    \cup {HttpResponse(200, b) : b \in Bodies}
    \cup {HttpResponse(c, b) : c \in {304, 404, 503}, b \in ErrorPageBodies}

(***************************************************************************)
(* The state after construction: Client::default().                        *)
(***************************************************************************)
DefaultBaseUrl == <<"http://127.0.0.1:9090", "/api/v1">>

Init ==
    /\ base_url = DefaultBaseUrl
    /\ pc = "idle"
    /\ op = "none"
    /\ args = None
    /\ request = None
    /\ sent = 0
    /\ response = None
    /\ outcome = None
    /\ trace = <<>>

Request(url, params) == [url |-> url, params |-> params]

\* a parameter that is pushed with an empty value when its value is not given
Pushed_always(key, opt) == IF opt = None THEN <<(<<key, <<>>>>)>> ELSE <<(<<key, opt.x>>)>>

\* a parameter that is pushed only when its value is given
Pushed(key, opt) == IF opt = None THEN <<>> ELSE <<(<<key, opt.x>>)>>

\* Option::map(|t| t.to_string())
OptToString(opt) == IF opt = None THEN None ELSE Some(to_string(opt.x))

\* what an operation returns: the result without the steps
Returned(res) ==
    CASE res.r = "Ok" -> [r |-> "Ok", v |-> res.v]
      [] res.r = "Err" -> [r |-> "Err", e |-> res.e]
      [] res.r = "Panic" -> [r |-> "Panic"]

\* An operation `o` called with `a` runs up to its await: `prepared` is the
\* request it built, or the error its validation returned with.
Call(o, a, prepared) ==
    /\ pc = "idle"
    /\ op' = o
    /\ args' = a
    /\ IF prepared.r = "Ok"
       THEN /\ pc' = "await"
            /\ request' = Some(prepared.v)
            /\ sent' = sent + 1
            /\ outcome' = None
            /\ trace' = prepared.tr \o <<"send">>
       ELSE /\ pc' = "done"
            /\ request' = None
            /\ sent' = sent
            /\ outcome' = Returned(prepared)
            /\ trace' = prepared.tr
    /\ UNCHANGED <<base_url, response>>

(***************************************************************************)
(* Client::query                                                           *)
(***************************************************************************)
query_prepare(vector, time, timeout) ==
    LET url == base_url \o <<"/query">>
        params == <<(<<"query", vector>>)>> \o Pushed("time", OptToString(time))
    IN  IF timeout = None THEN Ok(Request(url, params), <<>>)
        ELSE Then(validate_duration(timeout.x),
                  Ok(Request(url, params \o Pushed("timeout", timeout)), <<>>))

query(vector, time, timeout) ==
    Call("query", [vector |-> vector, time |-> time, timeout |-> timeout],
         query_prepare(vector, time, timeout))

query_resume(resp) == Then(checked(resp), convert_query_response(checked(resp).v))

(***************************************************************************)
(* Client::query_range                                                     *)
(***************************************************************************)
query_range_prepare(vector, start, end, step, timeout) ==
    LET url == base_url \o <<"/query_range">>
        params == <<(<<"query", vector>>), (<<"start", to_string(start)>>),
                    (<<"end", to_string(end)>>)>>
        stepped == IF step = None THEN Ok(params, <<>>)
                   ELSE Then(validate_duration(step.x), Ok(params \o Pushed("step", step), <<>>))
    IN  IF stepped.r # "Ok" THEN stepped
        ELSE IF timeout = None THEN Then(stepped, Ok(Request(url, stepped.v), <<>>))
        ELSE Then(stepped,
                  Then(validate_duration(timeout.x),
                       Ok(Request(url, stepped.v \o Pushed("timeout", timeout)), <<>>)))

query_range(vector, start, end, step, timeout) ==
    Call("query_range",
         [vector |-> vector, start |-> start, end |-> end, step |-> step, timeout |-> timeout],
         query_range_prepare(vector, start, end, step, timeout))

query_range_resume(resp) == Then(checked(resp), convert_query_response(checked(resp).v))

(***************************************************************************)
(* Client::series                                                          *)
(***************************************************************************)
\* series without the check of the selector list
series_prepare_unchecked(selectors, start, end) ==
    LET url == base_url \o <<"/series">>
        params == Pushed("start", OptToString(start)) \o Pushed("end", OptToString(end))
    IN  Ok(Request(url, params \o MatchParams(selectors)), <<>>)

series_prepare(selectors, start, end) ==
    LET url == base_url \o <<"/series">>
        params == Pushed("start", OptToString(start)) \o Pushed("end", OptToString(end))
    IN  IF selectors = <<>> THEN Err(InvalidFunctionArgument, <<>>)
        ELSE Ok(Request(url, params \o MatchParams(selectors)), <<>>)

series(selectors, start, end) ==
    Call("series", [selectors |-> selectors, start |-> start, end |-> end],
         series_prepare(selectors, start, end))

series_resume(resp) ==
    Then(checked(resp), data_closure("Vec<HashMap<String, String>>", checked(resp).v))

(***************************************************************************)
(* Client::label_names                                                     *)
(***************************************************************************)
\* label_names that wants a selector as series does
label_names_prepare_nonempty(selectors, start, end) ==
    LET url == base_url \o <<"/labels">>
        params == Pushed("start", OptToString(start)) \o Pushed("end", OptToString(end))
    IN  IF selectors = None \/ selectors = Some(<<>>) THEN Err(InvalidFunctionArgument, <<>>)
        ELSE Ok(Request(url, params \o MatchParams(selectors.x)), <<>>)

label_names_prepare(selectors, start, end) ==
    LET url == base_url \o <<"/labels">>
        params == Pushed("start", OptToString(start)) \o Pushed("end", OptToString(end))
    IN  Ok(Request(url, params \o (IF selectors = None THEN <<>> ELSE MatchParams(selectors.x))),
           <<>>)

label_names(selectors, start, end) ==
    Call("label_names", [selectors |-> selectors, start |-> start, end |-> end],
         label_names_prepare(selectors, start, end))

label_names_resume(resp) == Then(checked(resp), data_closure("Vec<String>", checked(resp).v))

(***************************************************************************)
(* Client::label_values                                                    *)
(***************************************************************************)
label_values_prepare(label, selectors, start, end) ==
    LET url == base_url \o <<"/label/">> \o label \o <<"/values">>
        params == Pushed("start", OptToString(start)) \o Pushed("end", OptToString(end))
    IN  Ok(Request(url, params \o (IF selectors = None THEN <<>> ELSE MatchParams(selectors.x))),
           <<>>)

label_values(label, selectors, start, end) ==
    Call("label_values",
         [label |-> label, selectors |-> selectors, start |-> start, end |-> end],
         label_values_prepare(label, selectors, start, end))

label_values_resume(resp) == Then(checked(resp), data_closure("Vec<String>", checked(resp).v))

(***************************************************************************)
(* Client::targets, rules, alerts, flags, alertmanagers                    *)
(***************************************************************************)
targets_prepare(state) == Ok(Request(base_url \o <<"/targets">>, Pushed("state", state)), <<>>)

targets(state) == Call("targets", [state |-> state], targets_prepare(state))

targets_resume(resp) == Then(checked(resp), data_closure("Targets", checked(resp).v))

rules_prepare(rule_type) ==
    Ok(Request(base_url \o <<"/rules">>, Pushed("type", rule_type)), <<>>)

rules(rule_type) == Call("rules", [rule_type |-> rule_type], rules_prepare(rule_type))

rules_resume(resp) ==
    Then(checked(resp), field_closure("Vec<RuleGroup>", "groups", checked(resp).v))

alerts_prepare == Ok(Request(base_url \o <<"/alerts">>, <<>>), <<>>)

alerts == Call("alerts", None, alerts_prepare)

alerts_resume(resp) ==
    Then(checked(resp), field_closure("Vec<Alert>", "alerts", checked(resp).v))

flags_prepare == Ok(Request(base_url \o <<"/status/flags">>, <<>>), <<>>)

flags == Call("flags", None, flags_prepare)

flags_resume(resp) ==
    Then(checked(resp), data_closure("HashMap<String, String>", checked(resp).v))

alertmanagers_prepare == Ok(Request(base_url \o <<"/alertmanagers">>, <<>>), <<>>)

alertmanagers == Call("alertmanagers", None, alertmanagers_prepare)

alertmanagers_resume(resp) == Then(checked(resp), alertmanagers_closure(checked(resp).v))

(***************************************************************************)
(* Client::target_metadata, metric_metadata                                *)
(***************************************************************************)
target_metadata_prepare(metric, match_target, limit) ==
    Ok(Request(base_url \o <<"/targets/metadata">>,
               Pushed("metric", metric)
               \o Pushed("match_target",
                         IF match_target = None THEN None
                         ELSE Some(SelectorToString(match_target.x)))
               \o Pushed("limit", OptToString(limit))),
       <<>>)

target_metadata(metric, match_target, limit) ==
    Call("target_metadata",
         [metric |-> metric, match_target |-> match_target, limit |-> limit],
         target_metadata_prepare(metric, match_target, limit))

target_metadata_resume(resp) ==
    Then(checked(resp), data_closure("Vec<TargetMetadata>", checked(resp).v))

metric_metadata_prepare(metric, limit) ==
    Ok(Request(base_url \o <<"/metadata">>,
               Pushed("metric", metric) \o Pushed("limit", OptToString(limit))),
       <<>>)

metric_metadata(metric, limit) ==
    Call("metric_metadata", [metric |-> metric, limit |-> limit],
         metric_metadata_prepare(metric, limit))

metric_metadata_resume(resp) ==
    Then(checked(resp), data_closure("HashMap<String, Vec<MetricMetadata>>", checked(resp).v))

(***************************************************************************)
(* The Query trait: InstantQuery and RangeQuery.                           *)
(***************************************************************************)
InstantQuery_get_query_params(q) ==
    <<(<<"query", q.query>>)>> \o Pushed("time", q.time) \o Pushed("timeout", q.timeout)

InstantQuery_prepare(q) ==
    Ok(Request(base_url \o <<"/query">>, InstantQuery_get_query_params(q)), <<>>)

InstantQuery_execute(q) == Call("InstantQuery::execute", q, InstantQuery_prepare(q))

RangeQuery_get_query_params(q) ==
    <<(<<"query", q.query>>), (<<"start", q.start>>), (<<"end", q.end>>), (<<"step", q.step>>)>>
    \o Pushed("timeout", q.timeout)

RangeQuery_prepare(q) ==
    Ok(Request(base_url \o <<"/query">>, RangeQuery_get_query_params(q)), <<>>)

RangeQuery_execute(q) == Call("RangeQuery::execute", q, RangeQuery_prepare(q))

\* whether v is absent, null or accepted by P
OptionalOk(v, ok) == v = Absent \/ v.t = "null" \/ ok

\* the envelope {status, data, errorType, error, warnings} that
\* InstantQueryResponse and RangeQueryResponse are decoded from
IsQueryResponse(body) ==
    /\ body.t = "obj"
    /\ Get(body.o, "status") \in {JStr("success"), JStr("error")}
    /\ OptionalOk(Get(body.o, "data"), Get(body.o, "data").t = "obj")
    /\ OptionalOk(Get(body.o, "errorType"), Get(body.o, "errorType").t = "str")
    /\ OptionalOk(Get(body.o, "error"), Get(body.o, "error").t = "str")
    /\ OptionalOk(Get(body.o, "warnings"), IsStringVec(Get(body.o, "warnings")))

\* Response::json::<T>(): the body is decoded, whatever the status code
json(ty, resp) ==
    IF IsQueryResponse(resp.body)
    THEN Ok([type |-> ty, value |-> resp.body], <<"json">>)
    ELSE Err(Reqwest("decode"), <<"json">>)

\* .send().await?.json::<InstantQueryResponse>().await?
InstantQuery_resume(resp) == Then(send(resp), json("InstantQueryResponse", resp))

\* .send().await?.json::<RangeQueryResponse>().await?
RangeQuery_resume(resp) == Then(send(resp), json("RangeQueryResponse", resp))

(***************************************************************************)
(* The transport answers the request in flight and the operation runs to   *)
(* its return.                                                             *)
(***************************************************************************)
Resume(o, resp) ==
    CASE o = "query" -> query_resume(resp)
      [] o = "query_range" -> query_range_resume(resp)
      [] o = "series" -> series_resume(resp)
      [] o = "label_names" -> label_names_resume(resp)
      [] o = "label_values" -> label_values_resume(resp)
      [] o = "targets" -> targets_resume(resp)
      [] o = "rules" -> rules_resume(resp)
      [] o = "alerts" -> alerts_resume(resp)
      [] o = "flags" -> flags_resume(resp)
      [] o = "alertmanagers" -> alertmanagers_resume(resp)
      [] o = "target_metadata" -> target_metadata_resume(resp)
      [] o = "metric_metadata" -> metric_metadata_resume(resp)
      [] o = "InstantQuery::execute" -> InstantQuery_resume(resp)
      [] o = "RangeQuery::execute" -> RangeQuery_resume(resp)

\* Receive that sends the request again when the connection failed
ReceiveRetry ==
    /\ pc = "await"
    /\ \E resp \in Responses :
          IF resp = ConnectionError
          THEN /\ sent' = sent + 1
               /\ trace' = trace \o <<"send">>
               /\ UNCHANGED <<pc, response, outcome>>
          ELSE /\ response' = Some(resp)
               /\ outcome' = Returned(Resume(op, resp))
               /\ trace' = trace \o Resume(op, resp).tr
               /\ pc' = "done"
               /\ sent' = sent
    /\ UNCHANGED <<base_url, op, args, request>>

Receive ==
    /\ pc = "await"
    /\ \E resp \in Responses :
          LET res == Resume(op, resp)
          IN  /\ response' = Some(resp)
              /\ outcome' = Returned(res)
              /\ trace' = trace \o res.tr
    /\ pc' = "done"
    /\ UNCHANGED <<base_url, op, args, request, sent>>

\* the invocation's values are discarded once it has returned
Return ==
    /\ pc = "done"
    /\ pc' = "idle"
    /\ op' = "none"
    /\ args' = None
    /\ request' = None
    /\ sent' = 0
    /\ response' = None
    /\ outcome' = None
    /\ trace' = <<>>
    /\ UNCHANGED base_url

InstantQueries ==
    [query : Vectors, time : Opt({to_string(t) : t \in Times}), timeout : Opt(Durations)]

RangeQueries ==
    [query : Vectors, start : {to_string(t) : t \in Times}, end : {to_string(t) : t \in Times},
     step : Durations, timeout : Opt({<<"5", "m">>, <<>>})]

Next ==
    \/ \E v \in Vectors, t \in Opt(Times), d \in Opt(Durations) : query(v, t, d)
    \/ \E v \in Vectors, s \in Times, e \in Times, st \in Opt(Durations), d \in Opt(Durations) :
          query_range(v, s, e, st, d)
    \/ \E sl \in SelectorLists, s \in Opt(DiscoveryTimes), e \in Opt(DiscoveryTimes) :
          series(sl, s, e)
    \/ \E sl \in Opt(SelectorLists), s \in Opt(DiscoveryTimes), e \in Opt(DiscoveryTimes) :
          label_names(sl, s, e)
    \/ \E l \in Labels, sl \in Opt(SelectorLists),
          s \in Opt(DiscoveryTimes), e \in Opt(DiscoveryTimes) :
          label_values(l, sl, s, e)
    \/ \E st \in Opt(TargetStates) : targets(st)
    \/ \E rt \in Opt(RuleTypes) : rules(rt)
    \/ alerts
    \/ flags
    \/ alertmanagers
    \/ \E m \in Opt(Vectors), mt \in Opt(SelectorPool), l \in Opt(Limits) :
          target_metadata(m, mt, l)
    \/ \E m \in Opt(Vectors), l \in Opt(Limits) : metric_metadata(m, l)
    \/ \E q \in InstantQueries : InstantQuery_execute(q)
    \/ \E q \in RangeQueries : RangeQuery_execute(q)
    \/ Receive
    \/ Return

Spec == Init /\ [][Next]_vars

(***************************************************************************)
(* Properties.                                                             *)
(***************************************************************************)
ClientOps ==
    {"query", "query_range", "series", "label_names", "label_values", "targets", "rules",
     "alerts", "flags", "alertmanagers", "target_metadata", "metric_metadata"}

QueryOps == {"query", "query_range"}

\* the invocation has returned after a response with a 2xx status and a JSON object as body
Answered2xx ==
    /\ pc = "done"
    /\ response # None
    /\ response.x.t = "http"
    /\ response.x.code \in 200..299
    /\ response.x.body.t = "obj"

\* the field k of the envelope of the response
Field(k) == Get(response.x.body.o, k)

IsStr(v) == v # Absent /\ v.t = "str"

Steps == {trace[i] : i \in 1..Len(trace)}

\* the envelope has status "error" and carries errorType and error
ErrorEnvelope ==
    /\ Field("status") = JStr("error")
    /\ IsStr(Field("errorType"))
    /\ IsStr(Field("error"))

\* C1: an envelope with status "error" that carries errorType and error makes every
\* client operation fail with the ResponseError whose kind is errorType and whose
\* message is error, and neither the result-type dispatch nor a payload decoder runs.
C1_ErrorEnvelopeIsApiError ==
    (Answered2xx /\ op \in ClientOps /\ ErrorEnvelope) =>
        /\ outcome = [r |-> "Err",
                      e |-> ResponseError(Field("errorType").s, Field("error").s)]
        /\ Steps \cap {"convert_query_response", "match_data_type", "closure", "from_value"} = {}

C1_Witness ==
    /\ Answered2xx /\ op = "alertmanagers" /\ ErrorEnvelope
    /\ Field("data") # Absent
    /\ outcome = [r |-> "Err", e |-> ResponseError("bad_data", "invalid query")]

\* the success payload of a query operation holds a resultType text and a result
TaggedPayload ==
    /\ Answered2xx /\ op \in QueryOps
    /\ Field("status") = JStr("success")
    /\ Field("data") # Absent /\ Field("data").t = "obj"
    /\ IsStr(Get(Field("data").o, "resultType"))
    /\ Get(Field("data").o, "result") # Absent

Tag == Get(Field("data").o, "resultType").s

Payload == Get(Field("data").o, "result")

\* the variant a tag stands for
VariantOf(tag) ==
    CASE tag = "vector" -> "Vector" [] tag = "matrix" -> "Matrix" [] tag = "scalar" -> "Scalar"

\* the payload has the shape the tag implies
HasShape(tag, v) ==
    CASE tag = "vector" -> v.t = "arr" /\ \A i \in 1..Len(v.a) : IsInstantVector(v.a[i])
      [] tag = "matrix" -> v.t = "arr" /\ \A i \in 1..Len(v.a) : IsRangeVector(v.a[i])
      [] tag = "scalar" -> IsSample(v)

\* C2: the variant of a query result is the one its resultType tag names, never
\* another; the scalar [1617960600, "1"] has timestamp 1617960600 and value "1"; a
\* payload that has not the shape of its tag is a decode error.
C2_TagDecidesVariant ==
    (TaggedPayload /\ Tag \in {"vector", "matrix", "scalar"}) =>
        /\ outcome.r \in {"Ok", "Err"}
        /\ outcome.r = "Ok" => outcome.v.variant = VariantOf(Tag)
        /\ HasShape(Tag, Payload) => outcome.r = "Ok"
        /\ ~HasShape(Tag, Payload) => outcome = [r |-> "Err", e |-> ResponseParse]
        /\ (Tag = "scalar" /\ Payload = ScalarResult) =>
              outcome.v.result = [timestamp |-> 1617960600, value |-> "1"]

C2_Witness ==
    /\ TaggedPayload /\ op = "query" /\ Tag = "vector" /\ Payload = ScalarResult
    /\ outcome = [r |-> "Err", e |-> ResponseParse]

\* C3: a resultType other than "vector", "matrix" and "scalar" makes the query
\* operation fail with UnsupportedQueryResultType of that tag, and no part of the
\* result is decoded.
C3_UnknownTagUnsupported ==
    (TaggedPayload /\ Tag \notin {"vector", "matrix", "scalar"}) =>
        /\ outcome = [r |-> "Err", e |-> UnsupportedQueryResultType(Tag)]
        /\ "from_value" \notin Steps

C3_Witness ==
    /\ TaggedPayload /\ op = "query_range" /\ Tag = "string" /\ Payload = VectorResult
    /\ outcome = [r |-> "Err", e |-> UnsupportedQueryResultType("string")]

\* C4: series called with an empty selector list returns InvalidFunctionArgument,
\* whatever start and end are, and issues no request.
C4_SeriesRejectsEmpty ==
    (op = "series" /\ args.selectors = <<>>) =>
        /\ pc = "done"
        /\ outcome = [r |-> "Err", e |-> InvalidFunctionArgument]
        /\ sent = 0 /\ request = None /\ response = None
        /\ "send" \notin Steps

C4_Witness ==
    /\ op = "series" /\ args.selectors = <<>> /\ args.start = Some(1) /\ args.end = Some(0)
    /\ outcome = [r |-> "Err", e |-> InvalidFunctionArgument]

DurationOps == {"query", "query_range", "InstantQuery::execute", "RangeQuery::execute"}

\* the duration an invocation was given under the name k, if any
DurationArg(k) ==
    IF k \notin DOMAIN args THEN None
    ELSE IF op = "RangeQuery::execute" /\ k = "step" THEN Some(args[k])
    ELSE args[k]

ParamKeys == {request.x.params[i][1] : i \in 1..Len(request.x.params)}

\* the number of steps s in the trace
Count(s) == Cardinality({i \in 1..Len(trace) : trace[i] = s})

\* C5: an operation with duration parameters validates every duration it is given
\* before it sends: an invalid one ends it with InvalidDuration and without a
\* request, and an absent one is neither validated nor put in the query string.
C5_DurationsValidatedBeforeSend ==
    op \in DurationOps =>
        /\ (\E k \in {"step", "timeout"} :
                DurationArg(k) # None /\ ~DurationOk(DurationArg(k).x)) =>
              /\ pc = "done"
              /\ outcome = [r |-> "Err", e |-> InvalidDuration]
              /\ sent = 0 /\ request = None
        /\ request # None =>
              /\ \A k \in {"step", "timeout"} : DurationArg(k) = None => k \notin ParamKeys
              /\ Count("validate_duration")
                    = Cardinality({k \in {"step", "timeout"} : DurationArg(k) # None})

\* the same for the two operations of Client alone
C5_ClientOpsValidate == op \in QueryOps => C5_DurationsValidatedBeforeSend

\* C6: a response whose status is not 2xx ends the operation with a transport
\* error, and its body is handed to no decoder.
C6_Non2xxIsTransportError ==
    (pc = "done" /\ response # None /\ response.x.t = "http"
        /\ response.x.code \notin 200..299) =>
        /\ outcome = [r |-> "Err", e |-> Reqwest("status")]
        /\ Steps \cap {"check_response", "json"} = {}

\* the same for the operations of Client and the statuses 4xx and 5xx
C6_ClientOps4xx5xx ==
    (pc = "done" /\ response # None /\ response.x.t = "http" /\ op \in ClientOps
        /\ response.x.code \in 400..599) =>
        /\ outcome = [r |-> "Err", e |-> Reqwest("status")]
        /\ Steps \cap {"check_response", "json"} = {}

\* the parameters pass the operation's own validation
ArgsValid ==
    CASE op = "query" -> args.timeout = None \/ DurationOk(args.timeout.x)
      [] op = "query_range" ->
            /\ args.step = None \/ DurationOk(args.step.x)
            /\ args.timeout = None \/ DurationOk(args.timeout.x)
      [] op = "series" -> args.selectors # <<>>
      [] OTHER -> TRUE

\* C7: an invocation makes at most one network call: exactly one when its
\* parameters are valid, none otherwise, and none after the first, whatever the
\* answer was.
C7_OneCallPerInvocation ==
    /\ sent <= 1
    /\ Count("send") = sent
    /\ pc = "idle" => sent = 0
    /\ pc = "await" => sent = 1 /\ ArgsValid
    /\ pc = "done" => sent = (IF ArgsValid THEN 1 ELSE 0)
    /\ (pc = "done" /\ sent = 1) => response # None /\ trace[1 + Count("validate_duration")] = "send"

C7_Witness ==
    /\ pc = "done" /\ op = "series" /\ sent = 1
    /\ response = Some(ConnectionError)
    /\ outcome = [r |-> "Err", e |-> Reqwest("connect")]

\* the stage after check_response was entered: the envelope was taken for a success
AcceptedAsSuccess ==
    Steps \cap {"convert_query_response", "closure"} # {}

\* the operation returned the ResponseError of the envelope
IsApiError == outcome.r = "Err" /\ outcome.e.kind = "ResponseError"

\* the envelope was handed to check_response and every field it looks at is text
EnvelopeChecked ==
    /\ Answered2xx /\ op \in ClientOps
    /\ \A k \in {"status", "errorType", "error"} : Field(k) = Absent \/ IsStr(Field(k))

\* C8 as stated: an accepted envelope has data and neither errorType nor error, an
\* envelope answered with the ResponseError has errorType and error and no data,
\* and every other combination of the fields is rejected.
C8_AcceptedEnvelopeInvariant ==
    EnvelopeChecked =>
        /\ AcceptedAsSuccess =>
              /\ Field("status") = JStr("success")
              /\ Field("data") # Absent
              /\ Field("errorType") = Absent /\ Field("error") = Absent
        /\ IsApiError =>
              /\ Field("status") = JStr("error")
              /\ Field("errorType") # Absent /\ Field("error") # Absent
              /\ Field("data") = Absent

\* C8 as the code has it: only the status decides.  An accepted envelope has
\* status "success" and an operation returns a result only if data is there too
\* (MissingField without); status "error" gives the ResponseError when errorType
\* and error are there and MissingField when one is not; errorType or error beside
\* "success", and data beside "error", are ignored.
C8_StatusAloneDecides ==
    EnvelopeChecked =>
        /\ AcceptedAsSuccess <=> Field("status") = JStr("success")
        /\ outcome.r = "Ok" => Field("status") = JStr("success") /\ Field("data") # Absent
        /\ (Field("status") = JStr("success") /\ Field("data") = Absent) =>
              outcome = [r |-> "Err", e |-> MissingField]
        /\ IsApiError <=>
              /\ Field("status") = JStr("error")
              /\ Field("errorType") # Absent /\ Field("error") # Absent
        /\ (Field("status") = JStr("error")
                /\ (Field("errorType") = Absent \/ Field("error") = Absent)) =>
              outcome = [r |-> "Err", e |-> MissingField]
        /\ (Field("status") = JStr("success") /\ Field("data") = VectorData
                /\ op \in QueryOps) =>
              outcome.r = "Ok"

C8_Witness ==
    /\ EnvelopeChecked /\ op = "query"
    /\ Field("status") = JStr("success") /\ Field("data") = VectorData
    /\ Field("errorType") # Absent /\ Field("error") # Absent
    /\ outcome.r = "Ok"

RECURSIVE ParseDecimal(_)

\* the number that a text of digits stands for
ParseDecimal(s) ==
    IF s = <<>> THEN 0
    ELSE 10 * ParseDecimal(SubSeq(s, 1, Len(s) - 1))
         + (CHOOSE d \in 0..9 : Digit[d + 1] = s[Len(s)])

\* C10: a range query is sent only with start <= end and with a step.
C10_RangeNeedsOrderAndStep ==
    /\ (op = "query_range" /\ request # None) =>
          args.start <= args.end /\ args.step # None
    /\ (op = "RangeQuery::execute" /\ request # None) =>
          ParseDecimal(args.start) <= ParseDecimal(args.end)

DiscoveryOps == {"series", "label_names", "label_values"}

\* the selectors an invocation of a discovery operation was given, in order
SelectorsGiven ==
    IF op = "series" THEN args.selectors
    ELSE IF args.selectors = None THEN <<>> ELSE args.selectors.x

\* the parameters of the request in flight whose key is k, in order
RECURSIVE Select(_, _)

Select(params, k) ==
    IF params = <<>> THEN <<>>
    ELSE (IF Head(params)[1] = k THEN <<Head(params)>> ELSE <<>>) \o Select(Tail(params), k)

MatchEntries == Select(request.x.params, "match[]")

\* a label value of the selector holds a closing brace
BraceInValue(sel) ==
    \E i \in 1..Len(sel.matchers) : Find(sel.matchers[i].value, "}") # 0

\* C11: every selector given to series, label_names or label_values has its own
\* match[] entry, and the entry's value is the selector's whole matcher text: the
\* metric name and the matcher list between braces, every label value intact.
C11_MatchIsWholeMatcherText ==
    (op \in DiscoveryOps /\ request # None) =>
        /\ Len(MatchEntries) = Len(SelectorsGiven)
        /\ \A i \in 1..Len(MatchEntries) :
              MatchEntries[i][2] = SelectorToString(SelectorsGiven[i])

\* the same for the selectors without a closing brace in a label value
C11_IntactWithoutBraceInValue ==
    (op \in DiscoveryOps /\ request # None) =>
        /\ Len(MatchEntries) = Len(SelectorsGiven)
        /\ \A i \in 1..Len(MatchEntries) :
              ~BraceInValue(SelectorsGiven[i]) =>
                  MatchEntries[i][2] = SelectorToString(SelectorsGiven[i])

\* the invocation has returned after a response with a 2xx status
Returned2xx ==
    /\ pc = "done"
    /\ response # None
    /\ response.x.t = "http"
    /\ response.x.code \in 200..299

\* the operations that take the data field for an object: as_object().unwrap()
DataObjectOps == QueryOps \cup {"rules", "alerts", "alertmanagers"}

\* a field of the envelope that is present has the JSON type the operation unwraps
FieldsTyped ==
    /\ \A k \in {"status", "errorType", "error"} : Field(k) = Absent \/ IsStr(Field(k))
    /\ op \in DataObjectOps => Field("data") = Absent \/ Field("data").t = "obj"
    /\ (op \in QueryOps /\ Field("data") # Absent /\ Field("data").t = "obj") =>
          LET tag == Get(Field("data").o, "resultType") IN tag = Absent \/ IsStr(tag)
    /\ (op = "alertmanagers" /\ Field("data") # Absent /\ Field("data").t = "obj") =>
          \A k \in {"activeAlertmanagers", "droppedAlertmanagers"} :
              LET list == Get(Field("data").o, k)
              IN  \/ list = Absent
                  \/ /\ list.t = "arr"
                     /\ \A i \in 1..Len(list.a) :
                           list.a[i].t = "obj" => Get(list.a[i].o, "url").t \in {"absent", "str"}

\* C12: whatever body comes with a 2xx status, the operation returns a typed result
\* or an error value; a field of an unexpected JSON type gives an error and never
\* an abort of the operation.
C12_MistypedFieldIsReturnedError ==
    Returned2xx => outcome.r \in {"Ok", "Err"}

\* the operation is aborted only by a field of an unexpected JSON type
C12_AbortOnlyOnMistypedField ==
    (Returned2xx /\ outcome.r = "Panic") =>
        /\ op \in ClientOps
        /\ response.x.body.t = "obj"
        /\ ~FieldsTyped

MissingFieldReturned == outcome = [r |-> "Err", e |-> MissingField]

\* the envelope has status "success" and an object as data
SuccessWithDataObject ==
    /\ Field("status") = JStr("success")
    /\ Field("data") # Absent /\ Field("data").t = "obj"

\* C13: a key the operation expects and does not find gives MissingField: status
\* in any envelope; errorType or error beside status "error"; data beside status
\* "success"; resultType or result in the data of a query operation; groups in the
\* data of rules; alerts in the data of alerts.  The fields that are present have
\* the JSON type the operation expects.
C13_AbsentKeyIsMissingField ==
    (Answered2xx /\ op \in ClientOps /\ FieldsTyped) =>
        /\ Field("status") = Absent => MissingFieldReturned
        /\ (Field("status") = JStr("error")
                /\ (Field("errorType") = Absent \/ Field("error") = Absent)) =>
              MissingFieldReturned
        /\ (Field("status") = JStr("success") /\ Field("data") = Absent) =>
              MissingFieldReturned
        /\ (op \in QueryOps /\ SuccessWithDataObject
                /\ (Get(Field("data").o, "resultType") = Absent
                    \/ Get(Field("data").o, "result") = Absent)) =>
              MissingFieldReturned
        /\ (op = "rules" /\ SuccessWithDataObject /\ Get(Field("data").o, "groups") = Absent) =>
              MissingFieldReturned
        /\ (op = "alerts" /\ SuccessWithDataObject /\ Get(Field("data").o, "alerts") = Absent) =>
              MissingFieldReturned

C13_Witness ==
    /\ Answered2xx /\ op = "rules" /\ SuccessWithDataObject
    /\ "alerts" \in DOMAIN Field("data").o
    /\ Get(Field("data").o, "groups") = Absent
    /\ MissingFieldReturned

InstantOps == {"query", "InstantQuery::execute"}

RangeOps == {"query_range", "RangeQuery::execute"}

\* the keys of the query string of the request in flight, in order
Keys == [i \in 1..Len(request.x.params) |-> request.x.params[i][1]]

\* the invocation was given a value for its parameter k
Supplied(k) ==
    /\ k \in DOMAIN args
    /\ \/ op = "query_range" /\ k \in {"start", "end"}
       \/ op = "RangeQuery::execute" /\ k \in {"start", "end", "step"}
       \/ args[k] # None

KeyIfSupplied(k) == IF Supplied(k) THEN <<k>> ELSE <<>>

\* C14: the query string of an instant query is query, then time when a time is
\* given, then timeout when a timeout is given; the one of a range query is query,
\* start, end, then step when a step is given, then timeout when a timeout is
\* given.  No other key is in it and no key is in it twice.
C14_QueryStringKeys ==
    /\ (op \in InstantOps /\ request # None) =>
          Keys = <<"query">> \o KeyIfSupplied("time") \o KeyIfSupplied("timeout")
    /\ (op \in RangeOps /\ request # None) =>
          Keys = <<"query", "start", "end">> \o KeyIfSupplied("step") \o KeyIfSupplied("timeout")

C14_Witness ==
    /\ op = "query_range" /\ request # None
    /\ args.step = None /\ args.timeout # None
    /\ Keys = <<"query", "start", "end", "timeout">>

(***************************************************************************)
(* Concurrent invocations on one handle.  Every operation takes the client *)
(* by shared reference (&self, &Client): MaxInFlight invocations share     *)
(* base_url, and each has its own pc, op, args, request, sent, response,   *)
(* outcome and trace, which are functions of the invocation here.  An      *)
(* invocation runs without suspension up to its await on the transport and *)
(* from the transport's answer to its return, so these are the steps that  *)
(* interleave.                                                             *)
(***************************************************************************)
Invocations == 1..MaxInFlight

\* the part of an operation before its await
Prepare(o, a) ==
    CASE o = "query" -> query_prepare(a.vector, a.time, a.timeout)
      [] o = "query_range" -> query_range_prepare(a.vector, a.start, a.end, a.step, a.timeout)
      [] o = "series" -> series_prepare(a.selectors, a.start, a.end)
      [] o = "label_names" -> label_names_prepare(a.selectors, a.start, a.end)
      [] o = "label_values" -> label_values_prepare(a.label, a.selectors, a.start, a.end)
      [] o = "targets" -> targets_prepare(a.state)
      [] o = "rules" -> rules_prepare(a.rule_type)
      [] o = "alerts" -> alerts_prepare
      [] o = "flags" -> flags_prepare
      [] o = "alertmanagers" -> alertmanagers_prepare
      [] o = "target_metadata" -> target_metadata_prepare(a.metric, a.match_target, a.limit)
      [] o = "metric_metadata" -> metric_metadata_prepare(a.metric, a.limit)
      [] o = "InstantQuery::execute" -> InstantQuery_prepare(a)
      [] o = "RangeQuery::execute" -> RangeQuery_prepare(a)

\* execute that appends its path to the handle's base_url and not to a clone of it
Handle_pushed(o, url) ==
    IF o \in {"InstantQuery::execute", "RangeQuery::execute"} THEN url \o <<"/query">> ELSE url

\* The base_url of the handle after operation o has built its URL from it: the
\* operations of Client build a new String with format!, and execute appends to a
\* clone, so the handle keeps its base_url.
Handle(o, url) == url

\* the calls that are made concurrently
ConcurrentCalls ==
    {[o |-> "query", a |-> [vector |-> v, time |-> Some(MaxTime), timeout |-> d]] :
        v \in Vectors, d \in {None, Some(<<"5", "m">>), Some(<<>>)}}
    \cup {[o |-> "series", a |-> [selectors |-> sl, start |-> None, end |-> Some(0)]] :
            sl \in {l \in SelectorLists : Len(l) <= 1}}
    \cup {[o |-> "label_values",
           a |-> [label |-> l, selectors |-> None, start |-> None, end |-> None]] : l \in Labels}
    \cup {[o |-> "alerts", a |-> None]}
    \cup {[o |-> "InstantQuery::execute",
           a |-> [query |-> v, time |-> None, timeout |-> Some(<<"5", "m">>)]] : v \in Vectors}
    \cup {[o |-> "RangeQuery::execute",
           a |-> [query |-> v, start |-> to_string(0), end |-> to_string(MaxTime),
                  step |-> <<"3", "0", "s">>, timeout |-> None]] : v \in Vectors}

\* the answers the transport gives them
ConcurrentResponses ==
    {ConnectionError,
     HttpResponse(200, JObj([status |-> JStr("success"), data |-> VectorData])),
     HttpResponse(200, JObj([status |-> JStr("success"), data |-> JArr(<<JStr("job")>>)])),
     HttpResponse(200, JObj([status |-> JStr("error"), errorType |-> JStr("bad_data"),
                             error |-> JStr("invalid query")])),
     HttpResponse(503, Garbage)}

InitConcurrent ==
    /\ base_url = DefaultBaseUrl
    /\ pc = [i \in Invocations |-> "idle"]
    /\ op = [i \in Invocations |-> "none"]
    /\ args = [i \in Invocations |-> None]
    /\ request = [i \in Invocations |-> None]
    /\ sent = [i \in Invocations |-> 0]
    /\ response = [i \in Invocations |-> None]
    /\ outcome = [i \in Invocations |-> None]
    /\ trace = [i \in Invocations |-> <<>>]

\* invocation i enters operation o with the arguments a and runs up to its await
CallConcurrent(i, o, a) ==
    LET prepared == Prepare(o, a)
    IN  /\ pc[i] = "idle"
        /\ op' = [op EXCEPT ![i] = o]
        /\ args' = [args EXCEPT ![i] = a]
        /\ base_url' = Handle(o, base_url)
        /\ IF prepared.r = "Ok"
           THEN /\ pc' = [pc EXCEPT ![i] = "await"]
                /\ request' = [request EXCEPT ![i] = Some(prepared.v)]
                /\ sent' = [sent EXCEPT ![i] = sent[i] + 1]
                /\ outcome' = outcome
                /\ trace' = [trace EXCEPT ![i] = prepared.tr \o <<"send">>]
           ELSE /\ pc' = [pc EXCEPT ![i] = "done"]
                /\ request' = request
                /\ sent' = sent
                /\ outcome' = [outcome EXCEPT ![i] = Returned(prepared)]
                /\ trace' = [trace EXCEPT ![i] = prepared.tr]
        /\ UNCHANGED response

\* the transport answers invocation i, which runs to its return
ReceiveConcurrent(i) ==
    /\ pc[i] = "await"
    /\ \E resp \in ConcurrentResponses :
          /\ response' = [response EXCEPT ![i] = Some(resp)]
          /\ outcome' = [outcome EXCEPT ![i] = Returned(Resume(op[i], resp))]
          /\ trace' = [trace EXCEPT ![i] = trace[i] \o Resume(op[i], resp).tr]
    /\ pc' = [pc EXCEPT ![i] = "done"]
    /\ UNCHANGED <<base_url, op, args, request, sent>>

\* the values of invocation i are discarded once it has returned
ReturnConcurrent(i) ==
    /\ pc[i] = "done"
    /\ pc' = [pc EXCEPT ![i] = "idle"]
    /\ op' = [op EXCEPT ![i] = "none"]
    /\ args' = [args EXCEPT ![i] = None]
    /\ request' = [request EXCEPT ![i] = None]
    /\ sent' = [sent EXCEPT ![i] = 0]
    /\ response' = [response EXCEPT ![i] = None]
    /\ outcome' = [outcome EXCEPT ![i] = None]
    /\ trace' = [trace EXCEPT ![i] = <<>>]
    /\ UNCHANGED base_url

NextConcurrent ==
    \/ \E i \in Invocations, c \in ConcurrentCalls : CallConcurrent(i, c.o, c.a)
    \/ \E i \in Invocations : ReceiveConcurrent(i)
    \/ \E i \in Invocations : ReturnConcurrent(i)

SpecConcurrent == InitConcurrent /\ [][NextConcurrent]_vars

\* what invocation i does when it runs alone on a handle with the default base_url
AloneRequest(i) ==
    IF Prepare(op[i], args[i]).r = "Ok" THEN Some(Prepare(op[i], args[i]).v) ELSE None

AloneOutcome(i) ==
    IF Prepare(op[i], args[i]).r # "Ok" THEN Returned(Prepare(op[i], args[i]))
    ELSE Returned(Resume(op[i], response[i].x))

\* C15: the invocations on one handle share no state that any of them changes: the
\* base_url stays what it was, and in every interleaving each invocation's
\* request and outcome are those of the same call running alone with the same
\* answer of the server.
C15_NoSharedMutableState ==
    /\ base_url = DefaultBaseUrl
    /\ \A i \in Invocations :
          /\ pc[i] # "idle" => request[i] = AloneRequest(i)
          /\ pc[i] = "done" => outcome[i] = AloneOutcome(i)
          /\ pc[i] = "await" => outcome[i] = None /\ sent[i] = 1
          /\ sent[i] <= 1

C15_Witness ==
    /\ pc[1] = "await" /\ op[1] = "InstantQuery::execute"
    /\ pc[2] = "done" /\ op[2] = "query" /\ outcome[2].r = "Ok"
    /\ request[1].x.url = request[2].x.url

(***************************************************************************)
(* The constructors of Client.  A URL text is the sequence of its parts:   *)
(* scheme, host, port and path, every one but the first two optional.      *)
(***************************************************************************)
Schemes == {"http://", "https://"}

Hosts == {"proxy.example.com", "127.0.0.1"}

Ports == {":8443", ":80"}

Paths == {"/prometheus", "/"}

\* the port that url::Url leaves out of the serialization of a scheme
DefaultPort(scheme) == IF scheme = "http://" THEN ":80" ELSE ":443"

\* url::Url::parse: a scheme and a host are needed; the port and the path are kept
Url_parse(u) ==
    IF Len(u) < 2 \/ u[1] \notin Schemes \/ u[2] \notin Hosts THEN Err(UrlParse, <<>>)
    ELSE
    LET rest == SubSeq(u, 3, Len(u))
        port == IF rest # <<>> /\ rest[1] \in Ports THEN <<rest[1]>> ELSE <<>>
        path == SubSeq(rest, Len(port) + 1, Len(rest))
    IN  Ok([scheme |-> u[1], host |-> u[2], port |-> port, path |-> path], <<>>)

\* Url's Display: the serialization, without a default port and with the path "/"
\* in place of an empty path
Url_to_string(url) ==
    <<url.scheme, url.host>>
    \o (IF url.port = <<DefaultPort(url.scheme)>> THEN <<>> ELSE url.port)
    \o (IF url.path = <<>> THEN <<"/">> ELSE url.path)

\* format!("{}/api/v1", url)
api_v1(url) == Url_to_string(url) \o <<"/api/v1">>

\* impl FromStr for Client
from_str(u) ==
    IF Url_parse(u).r # "Ok" THEN Url_parse(u) ELSE Ok([base_url |-> api_v1(Url_parse(u).v)], <<>>)

\* impl TryFrom<&str> for Client
try_from_str(u) ==
    IF Url_parse(u).r # "Ok" THEN Url_parse(u) ELSE Ok([base_url |-> api_v1(Url_parse(u).v)], <<>>)

\* impl TryFrom<String> for Client
try_from_String(u) ==
    IF Url_parse(u).r # "Ok" THEN Url_parse(u) ELSE Ok([base_url |-> api_v1(Url_parse(u).v)], <<>>)

\* Client::from(client, url)
from(u) ==
    IF Url_parse(u).r # "Ok" THEN Url_parse(u) ELSE Ok([base_url |-> api_v1(Url_parse(u).v)], <<>>)

\* the URL texts given to the constructors: with and without port and path, and
\* "", "proxy.example.com" and "http://", which are no URLs
UrlTexts ==
    {<<sc, h>> \o po \o pa :
        sc \in Schemes, h \in Hosts,
        po \in {<<>>} \cup {<<x>> : x \in Ports},
        pa \in {<<>>} \cup {<<x>> : x \in Paths}}
    \cup {<<>>, <<"proxy.example.com">>, <<"http://">>}

\* no client yet, and a URL text at hand
InitConstruct ==
    /\ base_url = None
    /\ pc = "new"
    /\ op = "none"
    /\ args \in UrlTexts
    /\ request = None
    /\ sent = 0
    /\ response = None
    /\ outcome = None
    /\ trace = <<>>

\* constructor `o` returns `made`: a client, or the error of Url::parse
Construct(o, made) ==
    /\ pc = "new"
    /\ op' = o
    /\ outcome' = Returned(made)
    /\ IF made.r = "Ok"
       THEN pc' = "idle" /\ base_url' = made.v.base_url
       ELSE pc' = "failed" /\ base_url' = base_url
    /\ UNCHANGED <<args, request, sent, response, trace>>

Client_from_str == Construct("from_str", from_str(args))

Client_try_from_str == Construct("try_from(&str)", try_from_str(args))

Client_try_from_String == Construct("try_from(String)", try_from_String(args))

Client_from == Construct("from", from(args))

Client_default == Construct("default", Ok([base_url |-> DefaultBaseUrl], <<>>))

NextConstruct ==
    \/ Client_from_str
    \/ Client_try_from_str
    \/ Client_try_from_String
    \/ Client_from
    \/ Client_default

SpecConstruct == InitConstruct /\ [][NextConstruct]_vars

UrlConstructors == {"from_str", "try_from(&str)", "try_from(String)", "from"}

\* the text is a URL for Url::parse
ValidUrl(u) == Url_parse(u).r = "Ok"

\* the four constructors return the same for the URL text at hand
ConstructorsAgree ==
    /\ from_str(args) = try_from_str(args)
    /\ from_str(args) = try_from_String(args)
    /\ from_str(args) = from(args)
    /\ outcome = Returned(from_str(args))

\* C16: a client built from a valid URL u has the base_url u followed by
\* "/api/v1", for every valid u, one without a path too; the default client has
\* "http://127.0.0.1:9090/api/v1"; a text that is no URL gives UrlParse and no
\* client; the four constructors return the same for the same text.
C16_BaseUrlIsUrlThenApiV1 ==
    /\ (pc # "new" /\ op = "default") => base_url = DefaultBaseUrl
    /\ (pc # "new" /\ op \in UrlConstructors) =>
          /\ ConstructorsAgree
          /\ ValidUrl(args) => pc = "idle" /\ base_url = args \o <<"/api/v1">>
          /\ ~ValidUrl(args) =>
                pc = "failed" /\ base_url = None /\ outcome = [r |-> "Err", e |-> UrlParse]

\* the parts of the claim that hold: base_url is u followed by "/api/v1" when u
\* has a path and no default port
C16_HoldsWithPathAndPort ==
    /\ (pc # "new" /\ op = "default") => base_url = DefaultBaseUrl
    /\ (pc # "new" /\ op \in UrlConstructors) =>
          /\ ConstructorsAgree
          /\ (ValidUrl(args) /\ Url_parse(args).v.path # <<>>
                /\ Url_parse(args).v.port # <<DefaultPort(args[1])>>) =>
                pc = "idle" /\ base_url = args \o <<"/api/v1">>
          /\ (ValidUrl(args) /\ Url_parse(args).v.path = <<>>) =>
                pc = "idle" /\ base_url[Len(base_url) - 1] = "/"
          /\ ~ValidUrl(args) =>
                pc = "failed" /\ base_url = None /\ outcome = [r |-> "Err", e |-> UrlParse]

(***************************************************************************)
(* The typed envelope of src/src/result.rs: QueryResult and the types it   *)
(* is made of, decoded by the Deserialize that serde derives for them.     *)
(***************************************************************************)
\* the error of serde_json
DecodeError == [kind |-> "serde_json::Error"]

\* The fields of a derived struct read from the value v.  `order` is the fields
\* in the order of their declaration and keys[f] the names field f is known
\* under (its name or rename, and its aliases).  A struct is read from an object,
\* where deny_unknown_fields refuses a key that is no field and a field may come
\* once only, or from an array that holds one element for every field.  A field
\* the object has not is Absent.
StructFields(v, order, keys) ==
    IF v.t = "arr" THEN
        IF Len(v.a) # Len(order) THEN None
        ELSE Some([f \in DOMAIN keys |-> v.a[CHOOSE i \in 1..Len(order) : order[i] = f]])
    ELSE IF v.t = "obj" THEN
        IF /\ DOMAIN v.o \subseteq UNION {keys[f] : f \in DOMAIN keys}
           /\ \A f \in DOMAIN keys : Cardinality(keys[f] \cap DOMAIN v.o) <= 1
        THEN Some([f \in DOMAIN keys |->
                      IF keys[f] \cap DOMAIN v.o = {} THEN Absent
                      ELSE v.o[CHOOSE k \in keys[f] \cap DOMAIN v.o : TRUE]])
        ELSE None
    ELSE None

\* a field of type Option<T>: None when the field is not there or is null
Optional(v, x) == IF v = Absent \/ v.t = "null" THEN None ELSE Some(x)

\* enum Status, with the alias of each variant
IsStatus(v) == v.t = "str" /\ v.s \in {"Success", "success", "Error", "error"}

ToStatus(v) == IF v.s \in {"Success", "success"} THEN "Success" ELSE "Error"

\* enum ResultType, with the alias of each variant
IsResultType(v) ==
    v.t = "str"
    /\ v.s \in {"Matrix", "matrix", "Vector", "vector", "Scalar", "scalar", "String", "string"}

ToResultType(v) ==
    CASE v.s \in {"Matrix", "matrix"} -> "Matrix"
      [] v.s \in {"Vector", "vector"} -> "Vector"
      [] v.s \in {"Scalar", "scalar"} -> "Scalar"
      [] v.s \in {"String", "string"} -> "String"

\* struct Value { timestamp: f64, value: String }
ValueFields(v) ==
    StructFields(v, <<"timestamp", "value">>,
                 [timestamp |-> {"timestamp"}, value |-> {"value"}])

IsValue(v) ==
    LET f == ValueFields(v)
    IN  f # None /\ f.x.timestamp.t = "num" /\ f.x.value.t = "str"

ToValue(v) ==
    LET f == ValueFields(v) IN [timestamp |-> f.x.timestamp.n, value |-> f.x.value.s]

\* struct Metric { #[serde(rename = "metric")] labels: HashMap<String, String>, value: Value }
MetricFields(v) ==
    StructFields(v, <<"labels", "value">>, [labels |-> {"metric"}, value |-> {"value"}])

IsMetric(v) ==
    LET f == MetricFields(v)
    IN  /\ f # None
        /\ f.x.labels # Absent /\ IsStringMap(f.x.labels)
        /\ f.x.value # Absent /\ IsValue(f.x.value)

ToMetric(v) ==
    LET f == MetricFields(v)
    IN  [labels |-> ToStringMap(f.x.labels), value |-> ToValue(f.x.value)]

\* Vec<Metric> with its elements in the opposite order
ToMetrics_reversed(a) == [i \in 1..Len(a) |-> ToMetric(a[Len(a) + 1 - i])]

\* Vec<Metric>
ToMetrics(a) == [i \in 1..Len(a) |-> ToMetric(a[i])]

\* struct Data { #[serde(alias = "resultType")] result_type: ResultType, result: Vec<Metric> }
DataFields(v) ==
    StructFields(v, <<"result_type", "result">>,
                 [result_type |-> {"result_type", "resultType"}, result |-> {"result"}])

IsData(v) ==
    LET f == DataFields(v)
    IN  /\ f # None
        /\ f.x.result_type # Absent /\ IsResultType(f.x.result_type)
        /\ f.x.result # Absent /\ f.x.result.t = "arr"
        /\ \A i \in 1..Len(f.x.result.a) : IsMetric(f.x.result.a[i])

ToData(v) ==
    LET f == DataFields(v)
    IN  [result_type |-> ToResultType(f.x.result_type), result |-> ToMetrics(f.x.result.a)]

\* struct QueryResult { status, data, #[serde(alias = "errorType")] error_type, error, warnings }
QueryResultFields(v) ==
    StructFields(v, <<"status", "data", "error_type", "error", "warnings">>,
                 [status |-> {"status"}, data |-> {"data"},
                  error_type |-> {"error_type", "errorType"}, error |-> {"error"},
                  warnings |-> {"warnings"}])

IsQueryResult(v) ==
    LET fields == QueryResultFields(v)
    IN  /\ fields # None
        /\ LET f == fields.x
           IN  /\ f.status # Absent /\ IsStatus(f.status)
               /\ OptionalOk(f.data, IsData(f.data))
               /\ OptionalOk(f.error_type, f.error_type.t = "str")
               /\ OptionalOk(f.error, f.error.t = "str")
               /\ OptionalOk(f.warnings, IsStringVec(f.warnings))

ToQueryResult(v) ==
    LET f == QueryResultFields(v).x
    IN  [status |-> ToStatus(f.status),
         data |-> Optional(f.data, ToData(f.data)),
         error_type |-> Optional(f.error_type, f.error_type.s),
         error |-> Optional(f.error, f.error.s),
         warnings |-> Optional(f.warnings, [i \in 1..Len(f.warnings.a) |-> f.warnings.a[i].s])]

\* serde_json::from_value::<QueryResult>(v)
from_value_QueryResult(v) ==
    IF v.t # "garbage" /\ IsQueryResult(v)
    THEN Ok(ToQueryResult(v), <<"from_value">>)
    ELSE Err(DecodeError, <<"from_value">>)

\* two series in an order that is not the order of their labels or values
TwoVectorResult ==
    JArr(<<JObj([metric |-> JObj([job |-> JStr("x"), instance |-> JStr("b")]),
                 value |-> JArr(<<JNum(1617960600), JStr("1")>>)]),
           JObj([metric |-> JObj([job |-> JStr("a")]),
                 value |-> JArr(<<JNum(1617960601), JStr("0")>>)])>>)

\* the envelopes given to the decoder: those of the operations, and vectors of
\* none, one and two series beside each combination of the other fields
DecodeBodies ==
    Bodies
    \cup {JObj(MkObj([status |-> JStr("success"),
                      data |-> JObj([resultType |-> JStr("vector"), result |-> rs]),
                      errorType |-> et, warnings |-> w, infos |-> x])) :
            rs \in {JArr(<<>>), VectorResult, TwoVectorResult},
            et \in {Absent, JNull, JStr("bad_data")},
            w \in {Absent, JNull, JArr(<<>>), JArr(<<JStr("w"), JStr("v")>>), JStr("w")},
            x \in {Absent, JArr(<<>>)}}

\* a JSON value at hand and nothing decoded yet
InitDecode ==
    /\ base_url = None
    /\ pc = "new"
    /\ op = "none"
    /\ args \in DecodeBodies
    /\ request = None
    /\ sent = 0
    /\ response = None
    /\ outcome = None
    /\ trace = <<>>

\* the value at hand is decoded into a QueryResult
QueryResult_deserialize ==
    /\ pc = "new"
    /\ pc' = "done"
    /\ op' = "QueryResult::deserialize"
    /\ outcome' = Returned(from_value_QueryResult(args))
    /\ trace' = from_value_QueryResult(args).tr
    /\ UNCHANGED <<base_url, args, request, sent, response>>

NextDecode == QueryResult_deserialize

SpecDecode == InitDecode /\ [][NextDecode]_vars

\* the fields an envelope may carry
EnvelopeKeys == {"status", "data", "errorType", "error", "warnings"}

\* the value at hand is a success envelope of the wire format whose data is a
\* vector: {"metric": {...}, "value": [<seconds>, "<number>"]} for every series
VectorEnvelope ==
    /\ args.t = "obj"
    /\ DOMAIN args.o \subseteq EnvelopeKeys
    /\ Get(args.o, "status") = JStr("success")
    /\ Get(args.o, "data").t = "obj"
    /\ DOMAIN Get(args.o, "data").o = {"resultType", "result"}
    /\ Get(args.o, "data").o["resultType"] = JStr("vector")
    /\ HasShape("vector", Get(args.o, "data").o["result"])
    /\ \A k \in {"errorType", "error"} : Get(args.o, k).t \in {"absent", "null", "str"}
    /\ Get(args.o, "warnings").t \in {"absent", "null"} \/ IsStringVec(Get(args.o, "warnings"))

\* the series of the envelope at hand
Series == Get(args.o, "data").o["result"].a

\* C17: a success envelope whose data is a vector decodes into a QueryResult with
\* status Success and data present; data has one entry for every element of
\* result, in the order of result, with the labels and the (timestamp, value)
\* of that element; error_type, error and warnings are None when the envelope
\* does not carry them.
C17_VectorEnvelopeDecodes ==
    (pc = "done" /\ op = "QueryResult::deserialize" /\ VectorEnvelope) =>
        /\ outcome.r = "Ok"
        /\ outcome.v.status = "Success"
        /\ outcome.v.data # None
        /\ outcome.v.data.x.result_type = "Vector"
        /\ Len(outcome.v.data.x.result) = Len(Series)
        /\ \A i \in 1..Len(Series) :
              /\ outcome.v.data.x.result[i].labels = ToStringMap(Series[i].o["metric"])
              /\ outcome.v.data.x.result[i].value.timestamp = Series[i].o["value"].a[1].n
              /\ outcome.v.data.x.result[i].value.value = Series[i].o["value"].a[2].s
        /\ Get(args.o, "errorType") = Absent => outcome.v.error_type = None
        /\ Get(args.o, "error") = Absent => outcome.v.error = None
        /\ Get(args.o, "warnings") = Absent => outcome.v.warnings = None

C17_Witness ==
    /\ pc = "done" /\ op = "QueryResult::deserialize" /\ VectorEnvelope
    /\ Len(Series) = 2
    /\ Get(args.o, "errorType") = Absent /\ Get(args.o, "warnings") = Absent
    /\ outcome.r = "Ok"
    /\ outcome.v.data.x.result[2].labels = [job |-> "a"]
    /\ outcome.v.warnings = None

\* C18: a range query, by Client::query_range or by RangeQuery::execute, is sent
\* to base_url + "/query_range", and an instant query, by Client::query or by
\* InstantQuery::execute, to base_url + "/query"; no range query goes to the path
\* of the instant queries.
C18_RangeAndInstantPaths ==
    /\ (op \in RangeOps /\ request # None) =>
          request.x.url = base_url \o <<"/query_range">>
    /\ (op \in InstantOps /\ request # None) =>
          request.x.url = base_url \o <<"/query">>

\* the same without RangeQuery::execute
C18_PathsButRangeQueryExecute ==
    /\ (op = "query_range" /\ request # None) =>
          request.x.url = base_url \o <<"/query_range">>
    /\ (op \in InstantOps /\ request # None) =>
          request.x.url = base_url \o <<"/query">>

\* the object `body` with w as its warnings field, and without one when w is Absent
WithWarnings(body, w) ==
    JObj([k \in (DOMAIN body.o \ {"warnings"}) \cup (IF w = Absent THEN {} ELSE {"warnings"}) |->
             IF k = "warnings" THEN w ELSE body.o[k]])

\* what a warnings field may be: not there, or strings
WarningsValues == {Absent, JArr(<<>>), JArr(<<JStr("w")>>), JArr(<<JStr("v"), JStr("w")>>)}

\* the invocation has returned after a response whose body is an object with a
\* warnings field of strings, or with none
AnsweredWithWarningsOrNone ==
    /\ pc = "done"
    /\ response # None
    /\ response.x.t = "http"
    /\ response.x.body.t = "obj"
    /\ Get(response.x.body.o, "warnings") \in WarningsValues

\* a decoded QueryResult, or the error of the decoder, without regard to warnings
SansWarnings(res) ==
    LET it == res
    IN  IF it.r = "Ok" THEN [r |-> "Ok", v |-> [it.v EXCEPT !.warnings = None]]
        ELSE Returned(it)

LabelOps == {"label_names", "label_values"}

\* p is the beginning of the text t
IsPrefix(p, t) == p # <<>> /\ Len(p) <= Len(t) /\ SubSeq(t, 1, Len(p)) = p

\* C20: label_names and label_values take any number of selectors.  With none,
\* the list not given or empty, they send their one request without a match[]
\* entry and do not return InvalidFunctionArgument, which series alone does; with
\* n selectors the request has n match[] entries, in the order of the selectors
\* and after start and end.
C20_LabelOpsAcceptZeroSelectors ==
    /\ (outcome # None /\ outcome = [r |-> "Err", e |-> InvalidFunctionArgument]) => op = "series"
    /\ op \in LabelOps =>
          /\ request # None /\ sent = 1
          /\ Keys = KeyIfSupplied("start") \o KeyIfSupplied("end")
                    \o [i \in 1..Len(SelectorsGiven) |-> "match[]"]
          /\ Len(MatchEntries) = Len(SelectorsGiven)
          /\ \A i \in 1..Len(MatchEntries) :
                IsPrefix(MatchEntries[i][2], SelectorToString(SelectorsGiven[i]))

C20_Witness ==
    /\ op = "label_names" /\ pc = "done"
    /\ args.selectors = Some(<<>>) /\ args.start # None /\ args.end = None
    /\ sent = 1 /\ Keys = <<"start">>
    /\ outcome.r = "Ok"

====
